---- MODULE Spec2Model ----
(***************************************************************************)
(* Security property-policy construction of rmw_fastrtps_shared_cpp:       *)
(*   rmw_security.cpp          apply_security_options and its copy of      *)
(*                             apply_logging_configuration_from_file       *)
(*   rmw_security_logging.cpp  apply_logging_configuration_from_file       *)
(*                                                                         *)
(* A std::string is a TLA+ string.  A pointer or an optional result is a   *)
(* sequence of length 0 (nullptr) or 1 (the pointee).  An XML element is a *)
(* record [name, text, children]: text is the result of GetText(), the     *)
(* children are in document order.                                         *)
(***************************************************************************)
EXTENDS Integers, Sequences, FiniteSets, TLC

VARIABLES
  have_security,  \* the HAVE_SECURITY macro of the build (fastrtps/config.h)
  readable,       \* file system: the paths rcutils_is_readable accepts
  logging_xml,    \* file system: the XML document stored in <root>/logging.xml
  policy,         \* the caller's PropertySeq (policy.properties())
  error_msg,      \* the rmw error slot: <<>> when clear, <<message>> when set
  call,           \* the last call made by the caller and its arguments
  ret,            \* what that call returned
  before,         \* the caller's PropertySeq when that call was made
  fs_accessed,    \* whether that call probed or loaded a file
  calls           \* how many calls the caller has made

vars == <<have_security, readable, logging_xml, policy, error_msg, call, ret,
          before, fs_accessed, calls>>

(***************************************************************************)
(* Bounds                                                                  *)
(***************************************************************************)
MaxCalls == 2        \* calls per behaviour of Spec
MaxParseCalls == 1   \* calls per behaviour of SpecParse
MaxMissing == 1      \* mandatory files missing from the security root
MaxBuildElements == 2  \* elements of a logging.xml in Spec
MaxUpserts == 2      \* calls per behaviour of SpecUpsert
MaxLen == 2          \* entries of a collection SpecUpsert starts from or merges

nullptr == <<>>

(***************************************************************************)
(* File names and property names                                           *)
(***************************************************************************)
identity_ca_cert_file_name == "identity_ca.cert.pem"
permissions_ca_cert_file_name == "permissions_ca.cert.pem"
governance_file_name == "governance.p7s"
cert_file_name == "cert.pem"
key_file_name == "key.pem"
permissions_file_name == "permissions.p7s"
logging_file_name == "logging.xml"

logging_plugin_property_name == "dds.sec.log.plugin"
log_file_property_name == "dds.sec.log.builtin.DDS_LogTopic.log_file"
distribute_enable_property_name == "dds.sec.log.builtin.DDS_LogTopic.distribute"
distribute_depth_property_name ==
  "com.rti.serv.secure.logging.distribute.writer_history_depth"
\* the one name on which the two translation units disagree
security_verbosity_property_name ==
  "dds.sec.log.builtin.DDS_LogTopic.logging_level"
logging_verbosity_property_name ==
  "dds.sec.log.builtin.DDS_LogTopic.event_log_level"

unsupported_msg ==
  "This Fast-RTPS version doesn't have the security libraries\nPlease compile Fast-RTPS using the -DSECURITY=ON CMake option"

\* eprosima::fastrtps::rtps::Property(name, value)
Property(name, value) == [name |-> name, value |-> value]

(***************************************************************************)
(* The profile catalog.  The depths are those of rmw/qos_profiles.h.       *)
(***************************************************************************)
supported_profiles ==
  << [name |-> "SENSOR_DATA",      profile |-> [depth |-> 5]],
     [name |-> "PARAMETERS",       profile |-> [depth |-> 1000]],
     [name |-> "DEFAULT",          profile |-> [depth |-> 10]],
     [name |-> "SERVICES_DEFAULT", profile |-> [depth |-> 10]],
     [name |-> "PARAMETER_EVENTS", profile |-> [depth |-> 1000]],
     [name |-> "SYSTEM_DEFAULT",   profile |-> [depth |-> 0]] >>

\* where a loop over a sequence stops: the least of the indices at which its
\* test holds, 0 if there is none
FirstIndex(hits) ==
  IF hits = {} THEN 0 ELSE CHOOSE i \in hits : \A j \in hits : i <= j

\* a mutant: an unknown name falls back to the first catalog entry
string_to_rmw_qos_profile_fallback(str) ==
  LET i == FirstIndex({k \in 1..Len(supported_profiles) :
                          supported_profiles[k].name = str})
  IN  IF i = 0 THEN <<supported_profiles[1].profile>>
      ELSE <<supported_profiles[i].profile>>

\* <<profile>> when the function returns true, nullptr when it returns false
string_to_rmw_qos_profile(str) ==
  LET i == FirstIndex({k \in 1..Len(supported_profiles) :
                          supported_profiles[k].name = str})
  IN  IF i = 0 THEN nullptr ELSE <<supported_profiles[i].profile>>

(***************************************************************************)
(* std::to_string of an unsigned integer                                   *)
(***************************************************************************)
Digits == <<"0", "1", "2", "3", "4", "5", "6", "7", "8", "9">>

RECURSIVE to_string(_)
to_string(n) ==
  IF n < 10 THEN Digits[n + 1]
  ELSE to_string(n \div 10) \o Digits[(n % 10) + 1]

(***************************************************************************)
(* The property sequence                                                   *)
(***************************************************************************)
\* a mutant: an existing property keeps its value
add_property_keep_existing(properties, property) ==
  LET i == FirstIndex({k \in 1..Len(properties) :
                          properties[k].name = property.name})
  IN  IF i = 0 THEN Append(properties, property) ELSE properties

\* a mutant: always push_back, never overwrite
add_property_push_back(properties, property) == Append(properties, property)

add_property(properties, property) ==
  LET i == FirstIndex({k \in 1..Len(properties) :
                          properties[k].name = property.name})
  IN  IF i = 0 THEN Append(properties, property)
      ELSE [properties EXCEPT ![i] = property]

(***************************************************************************)
(* tinyxml2                                                                *)
(***************************************************************************)
\* XMLNode::FirstChildElement(name) over the children of a node
FirstChildElement(children, tag_name) ==
  LET i == FirstIndex({k \in 1..Len(children) : children[k].name = tag_name})
  IN  IF i = 0 THEN nullptr ELSE <<children[i]>>

\* the outcome of a step of the parser: its status, the properties built so
\* far, and the message it put in the error slot (nullptr: none)
Step(status, properties, error) ==
  [status |-> status, properties |-> properties, error |-> error]

\* a mutant: the property is named after the tag
add_property_from_xml_element_tag_named(properties, property_name, element, tag_name) ==
  LET tag == FirstChildElement(element.children, tag_name)
  IN  IF tag # nullptr
      THEN IF tag[1].text = nullptr
           THEN Step(FALSE, properties,
                     <<"failed to set security logging " \o tag_name
                         \o ": improper format">>)
           ELSE Step(TRUE,
                     add_property(properties, Property(tag_name, tag[1].text[1])),
                     nullptr)
      ELSE Step(TRUE, properties, nullptr)

\* a mutant: an element without text is skipped instead of rejected
add_property_from_xml_element_lenient(properties, property_name, element, tag_name) ==
  LET tag == FirstChildElement(element.children, tag_name)
  IN  IF tag # nullptr /\ tag[1].text # nullptr
      THEN Step(TRUE,
                add_property(properties, Property(property_name, tag[1].text[1])),
                nullptr)
      ELSE Step(TRUE, properties, nullptr)

add_property_from_xml_element(properties, property_name, element, tag_name) ==
  LET tag == FirstChildElement(element.children, tag_name)
  IN  IF tag # nullptr
      THEN IF tag[1].text = nullptr
           THEN Step(FALSE, properties,
                     <<"failed to set security logging " \o tag_name
                         \o ": improper format">>)
           ELSE Step(TRUE,
                     add_property(properties,
                                  Property(property_name, tag[1].text[1])),
                     nullptr)
      ELSE Step(TRUE, properties, nullptr)

add_properties_from_qos_profile(properties, profile) ==
  add_property(properties,
               Property(distribute_depth_property_name, to_string(profile.depth)))

(***************************************************************************)
(* The file system                                                         *)
(***************************************************************************)
SecureRoot == "/keystore/talker"

\* rcutils_join_path, which joins with the path separator (its failing to
\* allocate the result is left out)
join_path(left_hand_path, right_hand_path) ==
  left_hand_path \o "/" \o right_hand_path

rcutils_is_readable(abs_path) == abs_path \in readable

\* XMLDocument::LoadFile followed by the document's child nodes: a file that
\* cannot be opened leaves the document empty
LoadFile(xml_file_path) ==
  IF xml_file_path = join_path(SecureRoot, logging_file_name)
       /\ rcutils_is_readable(xml_file_path)
  THEN logging_xml
  ELSE <<>>

\* <<path>> when the function returns true, nullptr when it returns false
get_security_file_path(node_secure_root, file_name) ==
  LET file_path == join_path(node_secure_root, file_name)
  IN  IF rcutils_is_readable(file_path) THEN <<file_path>> ELSE nullptr

path_to_uri(file_path) == "file://" \o file_path

\* a mutant: the governance file is joined but never probed
get_security_file_paths_unprobed(node_secure_root) ==
  LET Path(file_name) == get_security_file_path(node_secure_root, file_name)
  IN  IF Path(identity_ca_cert_file_name) = nullptr THEN nullptr
      ELSE IF Path(permissions_ca_cert_file_name) = nullptr THEN nullptr
      ELSE IF Path(cert_file_name) = nullptr THEN nullptr
      ELSE IF Path(key_file_name) = nullptr THEN nullptr
      ELSE IF Path(permissions_file_name) = nullptr THEN nullptr
      ELSE << [identity_ca_cert_path    |-> Path(identity_ca_cert_file_name)[1],
               permissions_ca_cert_path |-> Path(permissions_ca_cert_file_name)[1],
               governance_path          |-> join_path(node_secure_root,
                                                      governance_file_name),
               cert_path                |-> Path(cert_file_name)[1],
               key_path                 |-> Path(key_file_name)[1],
               permissions_path         |-> Path(permissions_file_name)[1],
               logging_path             |->
                 IF Path(logging_file_name) # nullptr
                 THEN Path(logging_file_name)[1] ELSE ""] >>

\* <<security_files>> when the function returns true, nullptr otherwise
get_security_file_paths(node_secure_root) ==
  LET Path(file_name) == get_security_file_path(node_secure_root, file_name)
  IN  IF Path(identity_ca_cert_file_name) = nullptr THEN nullptr
      ELSE IF Path(permissions_ca_cert_file_name) = nullptr THEN nullptr
      ELSE IF Path(governance_file_name) = nullptr THEN nullptr
      ELSE IF Path(cert_file_name) = nullptr THEN nullptr
      ELSE IF Path(key_file_name) = nullptr THEN nullptr
      ELSE IF Path(permissions_file_name) = nullptr THEN nullptr
      ELSE << [identity_ca_cert_path    |-> Path(identity_ca_cert_file_name)[1],
               permissions_ca_cert_path |-> Path(permissions_ca_cert_file_name)[1],
               governance_path          |-> Path(governance_file_name)[1],
               cert_path                |-> Path(cert_file_name)[1],
               key_path                 |-> Path(key_file_name)[1],
               permissions_path         |-> Path(permissions_file_name)[1],
               \* missing the logging configuration file is non-fatal
               logging_path             |->
                 IF Path(logging_file_name) # nullptr
                 THEN Path(logging_file_name)[1] ELSE ""] >>

(***************************************************************************)
(* What a call hands back: its return value, the caller's PropertySeq      *)
(* after it, the message it set (nullptr: none), and whether it went to    *)
(* the file system.                                                        *)
(***************************************************************************)
Return(value, properties, error, fs) ==
  [ret |-> value, properties |-> properties, error |-> error, fs |-> fs]

\* rmw_ret_t RMW_RET_ERROR (rmw/ret_types.h), and its conversion to bool
RMW_RET_ERROR == 1
ToBool(n) == n # 0

\* for (auto & item : new_properties) add_property(properties, item)
RECURSIVE add_all(_, _)
add_all(properties, new_properties) ==
  IF new_properties = <<>> THEN properties
  ELSE add_all(add_property(properties, Head(new_properties)),
               Tail(new_properties))

(***************************************************************************)
(* rmw_security_logging.cpp                                                *)
(***************************************************************************)
\* the properties the parser builds from the descriptor, starting from
\* new_properties; status FALSE is an early "return false"
logging_new_properties(new_properties, log_element) ==
  LET plugin == add_property(new_properties,
                             Property(logging_plugin_property_name,
                                      "builtin.DDS_LogTopic"))
      file == add_property_from_xml_element(
                plugin, log_file_property_name, log_element, "file")
      verbosity == add_property_from_xml_element(
                     file.properties, logging_verbosity_property_name, log_element, "verbosity")
      distribute == add_property_from_xml_element(
                      verbosity.properties, distribute_enable_property_name,
                      log_element, "distribute")
      qos_element == FirstChildElement(log_element.children, "qos")
      profile_element == FirstChildElement(qos_element[1].children, "profile")
      profile_str == profile_element[1].text
      profile == string_to_rmw_qos_profile(profile_str[1])
      profiled == IF profile_element # nullptr
                  THEN add_properties_from_qos_profile(distribute.properties,
                                                       profile[1])
                  ELSE distribute.properties
      depth == add_property_from_xml_element(
                 profiled, distribute_depth_property_name, qos_element[1], "depth")
  IN  IF ~file.status THEN file
      ELSE IF ~verbosity.status THEN verbosity
      ELSE IF ~distribute.status THEN distribute
      ELSE IF qos_element = nullptr THEN distribute
      ELSE IF profile_element # nullptr /\ profile_str = nullptr
      THEN Step(FALSE, distribute.properties,
                <<"failed to set security logging profile: improper format">>)
      ELSE IF profile_element # nullptr /\ profile = nullptr
      THEN Step(FALSE, distribute.properties,
                <<"failed to set security logging profile: " \o profile_str[1]
                    \o " is not a supported profile">>)
      ELSE depth

\* a mutant: the parser builds straight into the caller's sequence
logging_apply_logging_configuration_from_file_in_place(xml_file_path, properties) ==
  LET log_element == FirstChildElement(LoadFile(xml_file_path), "security_log")
      parsed == logging_new_properties(properties, log_element[1])
  IN  IF log_element = nullptr
      THEN Return(ToBool(RMW_RET_ERROR), properties,
                  <<"logger xml file missing 'security_log'">>, TRUE)
      ELSE Return(parsed.status, parsed.properties, parsed.error, TRUE)

logging_apply_logging_configuration_from_file(xml_file_path, properties) ==
  LET log_element == FirstChildElement(LoadFile(xml_file_path), "security_log")
      parsed == logging_new_properties(<<>>, log_element[1])
  IN  IF log_element = nullptr
      THEN Return(ToBool(RMW_RET_ERROR), properties,
                  <<"logger xml file missing 'security_log'">>, TRUE)
      ELSE IF ~parsed.status
      THEN Return(FALSE, properties, parsed.error, TRUE)
      \* now that we're done parsing, actually update the properties
      ELSE Return(TRUE, add_all(properties, parsed.properties), nullptr, TRUE)

(***************************************************************************)
(* rmw_security.cpp                                                        *)
(***************************************************************************)
\* the properties the parser builds from the descriptor, starting from
\* new_properties; status FALSE is an early "return false"
security_new_properties(new_properties, log_element) ==
  LET plugin == add_property(new_properties,
                             Property(logging_plugin_property_name,
                                      "builtin.DDS_LogTopic"))
      file == add_property_from_xml_element(
                plugin, log_file_property_name, log_element, "file")
      verbosity == add_property_from_xml_element(
                     file.properties, security_verbosity_property_name, log_element, "verbosity")
      distribute == add_property_from_xml_element(
                      verbosity.properties, distribute_enable_property_name,
                      log_element, "distribute")
      qos_element == FirstChildElement(log_element.children, "qos")
      profile_element == FirstChildElement(qos_element[1].children, "profile")
      profile_str == profile_element[1].text
      profile == string_to_rmw_qos_profile(profile_str[1])
      profiled == IF profile_element # nullptr
                  THEN add_properties_from_qos_profile(distribute.properties,
                                                       profile[1])
                  ELSE distribute.properties
      depth == add_property_from_xml_element(
                 profiled, distribute_depth_property_name, qos_element[1], "depth")
  IN  IF ~file.status THEN file
      ELSE IF ~verbosity.status THEN verbosity
      ELSE IF ~distribute.status THEN distribute
      ELSE IF qos_element = nullptr THEN distribute
      ELSE IF profile_element # nullptr /\ profile_str = nullptr
      THEN Step(FALSE, distribute.properties,
                <<"failed to set security logging profile: improper format">>)
      ELSE IF profile_element # nullptr /\ profile = nullptr
      THEN Step(FALSE, distribute.properties,
                <<"failed to set security logging profile: " \o profile_str[1]
                    \o " is not a supported profile">>)
      ELSE depth

\* a mutant: this copy alone reports a missing root as a failure
security_apply_logging_configuration_from_file_false(xml_file_path, properties) ==
  LET log_element == FirstChildElement(LoadFile(xml_file_path), "security_log")
      parsed == security_new_properties(<<>>, log_element[1])
  IN  IF ~have_security
      THEN Return(FALSE, properties, <<unsupported_msg>>, FALSE)
      ELSE IF log_element = nullptr
      THEN Return(FALSE, properties,
                  <<"logger xml file missing 'security_log'">>, TRUE)
      ELSE IF ~parsed.status
      THEN Return(FALSE, properties, parsed.error, TRUE)
      ELSE Return(TRUE, add_all(properties, parsed.properties), nullptr, TRUE)

security_apply_logging_configuration_from_file(xml_file_path, properties) ==
  LET log_element == FirstChildElement(LoadFile(xml_file_path), "security_log")
      parsed == security_new_properties(<<>>, log_element[1])
  IN  IF ~have_security
      THEN Return(FALSE, properties, <<unsupported_msg>>, FALSE)
      ELSE IF log_element = nullptr
      THEN Return(ToBool(RMW_RET_ERROR), properties,
                  <<"logger xml file missing 'security_log'">>, TRUE)
      ELSE IF ~parsed.status
      THEN Return(FALSE, properties, parsed.error, TRUE)
      ELSE Return(TRUE, add_all(properties, parsed.properties), nullptr, TRUE)

\* a mutant: the node certificate and the private key are swapped
core_properties_swapped(security_files) ==
  << Property("dds.sec.auth.plugin", "builtin.PKI-DH"),
     Property("dds.sec.auth.builtin.PKI-DH.identity_ca",
              path_to_uri(security_files.identity_ca_cert_path)),
     Property("dds.sec.auth.builtin.PKI-DH.identity_certificate",
              path_to_uri(security_files.key_path)),
     Property("dds.sec.auth.builtin.PKI-DH.private_key",
              path_to_uri(security_files.cert_path)),
     Property("dds.sec.crypto.plugin", "builtin.AES-GCM-GMAC"),
     Property("dds.sec.access.plugin", "builtin.Access-Permissions"),
     Property("dds.sec.access.builtin.Access-Permissions.permissions_ca",
              path_to_uri(security_files.permissions_ca_cert_path)),
     Property("dds.sec.access.builtin.Access-Permissions.governance",
              path_to_uri(security_files.governance_path)),
     Property("dds.sec.access.builtin.Access-Permissions.permissions",
              path_to_uri(security_files.permissions_path)) >>

\* the nine properties apply_security_options emplaces, in its order
core_properties(security_files) ==
  << Property("dds.sec.auth.plugin", "builtin.PKI-DH"),
     Property("dds.sec.auth.builtin.PKI-DH.identity_ca",
              path_to_uri(security_files.identity_ca_cert_path)),
     Property("dds.sec.auth.builtin.PKI-DH.identity_certificate",
              path_to_uri(security_files.cert_path)),
     Property("dds.sec.auth.builtin.PKI-DH.private_key",
              path_to_uri(security_files.key_path)),
     Property("dds.sec.crypto.plugin", "builtin.AES-GCM-GMAC"),
     Property("dds.sec.access.plugin", "builtin.Access-Permissions"),
     Property("dds.sec.access.builtin.Access-Permissions.permissions_ca",
              path_to_uri(security_files.permissions_ca_cert_path)),
     Property("dds.sec.access.builtin.Access-Permissions.governance",
              path_to_uri(security_files.governance_path)),
     Property("dds.sec.access.builtin.Access-Permissions.permissions",
              path_to_uri(security_files.permissions_path)) >>

apply_security_options(security_options, properties) ==
  LET security_files == get_security_file_paths(security_options.security_root_path[1])
      emplaced == properties \o core_properties(security_files[1])
      logged == security_apply_logging_configuration_from_file(
                  security_files[1].logging_path, emplaced)
  IN  IF security_options.security_root_path # nullptr
      THEN IF have_security
           THEN IF security_files # nullptr
                THEN IF security_files[1].logging_path # ""
                     THEN IF ~logged.ret
                          THEN Return(FALSE, logged.properties, logged.error, TRUE)
                          ELSE Return(TRUE, logged.properties, logged.error, TRUE)
                     ELSE Return(TRUE, emplaced, nullptr, TRUE)
                ELSE IF security_options.enforce_security
                THEN Return(FALSE, properties,
                            <<"couldn't find all security files!">>, TRUE)
                ELSE Return(TRUE, properties, nullptr, TRUE)
           ELSE Return(FALSE, properties, <<unsupported_msg>>, FALSE)
      ELSE Return(TRUE, properties, nullptr, FALSE)

(***************************************************************************)
(* The descriptors and file systems the model runs on                      *)
(***************************************************************************)
Element(name, text, children) ==
  [name |-> name, text |-> text, children |-> children]

\* the orders in which the members of S can appear
Orders(S) ==
  {ord \in [1..Cardinality(S) -> S] :
     \A i, j \in 1..Cardinality(S) : i # j => ord[i] # ord[j]}

FileTexts == {nullptr, <<"foo">>}
VerbosityTexts == {nullptr, <<"CRITICAL">>}
DistributeTexts == {nullptr, <<"true">>}
DepthTexts == {nullptr, <<"42">>}
CatalogNames == {supported_profiles[i].name : i \in 1..Len(supported_profiles)}
ProfileTexts ==
  {nullptr} \cup {<<n>> : n \in CatalogNames \cup {"default", "INVALID_PROFILE"}}

\* the children of a qos element: profile and depth, each at most once, in
\* either order, each with or without text
QosChildren ==
  UNION {{[i \in 1..Cardinality(T) |->
             IF ord[i] = "profile" THEN Element("profile", p, <<>>)
             ELSE Element("depth", d, <<>>)]
          : ord \in Orders(T), p \in ProfileTexts, d \in DepthTexts}
         : T \in SUBSET {"profile", "depth"}}

\* the children of a security_log element: file, verbosity, distribute and
\* qos, each at most once, in any order
LogChildren ==
  UNION {{[i \in 1..Cardinality(T) |->
             CASE ord[i] = "file" -> Element("file", f, <<>>)
               [] ord[i] = "verbosity" -> Element("verbosity", v, <<>>)
               [] ord[i] = "distribute" -> Element("distribute", d, <<>>)
               [] OTHER -> Element("qos", nullptr, q)]
          : ord \in Orders(T), f \in FileTexts, v \in VerbosityTexts,
            d \in DistributeTexts, q \in QosChildren}
         : T \in SUBSET {"file", "verbosity", "distribute", "qos"}}

\* a document is the sequence of its root-level elements: none (an empty or
\* unloadable file), a misnamed root, or a security_log
Documents ==
  {<<>>, <<Element("log", nullptr, <<>>)>>}
    \cup {<<Element("security_log", nullptr, c)>> : c \in LogChildren}

\* the number of elements below the root
RECURSIVE Weight(_)
Weight(children) ==
  IF children = <<>> THEN 0
  ELSE 1 + Weight(Head(children).children) + Weight(Tail(children))

BuildDocuments == {d \in Documents : d = <<>> \/ Weight(d[1].children) <= MaxBuildElements}

MandatoryFiles ==
  {identity_ca_cert_file_name, permissions_ca_cert_file_name,
   governance_file_name, cert_file_name, key_file_name, permissions_file_name}

AllFiles == MandatoryFiles \cup {logging_file_name}

LoggingPath == join_path(SecureRoot, logging_file_name)

\* the security roots: at most MaxMissing mandatory files are unreadable
FileSystems ==
  {{join_path(SecureRoot, f) : f \in AllFiles \ missing} :
     missing \in {m \in SUBSET AllFiles :
                    Cardinality(m \cap MandatoryFiles) <= MaxMissing}}

\* what a caller may already hold in its PropertySeq before a parse
InitialCollections ==
  { <<>>,
    <<Property("dds.sec.auth.plugin", "builtin.PKI-DH")>>,
    <<Property(distribute_depth_property_name, "7"),
      Property(logging_plugin_property_name, "builtin.other")>>,
    <<Property(logging_verbosity_property_name, "WARNING")>> }

NoCall == [op |-> "none"]

InitCaller ==
  /\ error_msg = nullptr
  /\ call = NoCall
  /\ ret = TRUE
  /\ before = <<>>
  /\ fs_accessed = FALSE
  /\ calls = 0

\* a node about to be configured: any build, any security root
Init ==
  /\ have_security \in BOOLEAN
  /\ readable \in FileSystems
  /\ logging_xml \in BuildDocuments
  /\ (LoggingPath \notin readable => logging_xml = <<>>)
  /\ policy = <<>>
  /\ InitCaller

\* the logging parsers on every descriptor, in a build with security support
InitParse ==
  /\ have_security = TRUE
  /\ readable = {join_path(SecureRoot, f) : f \in AllFiles}
  /\ logging_xml \in Documents
  /\ policy \in InitialCollections
  /\ InitCaller

(***************************************************************************)
(* The caller's operations                                                 *)
(***************************************************************************)
Returned(r, c) ==
  /\ policy' = r.properties
  /\ ret' = r.ret
  /\ error_msg' = IF r.error = nullptr THEN error_msg ELSE r.error
  /\ before' = policy
  /\ fs_accessed' = r.fs
  /\ call' = c
  /\ calls' = calls + 1
  /\ UNCHANGED <<have_security, readable, logging_xml>>

SecurityOptions ==
  [security_root_path : {nullptr, <<SecureRoot>>}, enforce_security : BOOLEAN]

\* apply_security_options(security_options, policy)
Build(limit) ==
  /\ calls < limit
  /\ \E security_options \in SecurityOptions :
       Returned(apply_security_options(security_options, policy),
                [op |-> "apply_security_options",
                 security_options |-> security_options])

\* rmw_security.cpp's apply_logging_configuration_from_file(path, policy)
SecurityParse(limit) ==
  /\ calls < limit
  /\ Returned(security_apply_logging_configuration_from_file(LoggingPath, policy),
              [op |-> "security_parse"])

\* rmw_security_logging.cpp's apply_logging_configuration_from_file(path, properties)
LoggingParse(limit) ==
  /\ calls < limit
  /\ Returned(logging_apply_logging_configuration_from_file(LoggingPath, policy),
              [op |-> "logging_parse"])

\* rmw_reset_error(), as the caller does between calls
ResetError ==
  /\ error_msg # nullptr
  /\ error_msg' = nullptr
  /\ call' = [op |-> "rmw_reset_error"]
  /\ UNCHANGED <<have_security, readable, logging_xml, policy, ret, before,
                 fs_accessed, calls>>

Next ==
  \/ Build(MaxCalls)
  \/ SecurityParse(MaxCalls)
  \/ LoggingParse(MaxCalls)
  \/ ResetError

Spec == Init /\ [][Next]_vars

NextParse ==
  \/ SecurityParse(MaxParseCalls)
  \/ LoggingParse(MaxParseCalls)
  \/ ResetError

SpecParse == InitParse /\ [][NextParse]_vars

(***************************************************************************)
(* add_property and the merging loop on their own                          *)
(***************************************************************************)
UpsertNames ==
  {logging_plugin_property_name, log_file_property_name,
   distribute_depth_property_name}
UpsertValues == {"a", "b"}
UpsertProperties == {Property(n, v) : n \in UpsertNames, v \in UpsertValues}

\* the collections of at most MaxLen entries with pairwise different names
UniqueCollections ==
  UNION {{c \in [1..n -> UpsertProperties] :
            \A i, j \in 1..n : i # j => c[i].name # c[j].name}
         : n \in 0..MaxLen}

InitUpsert ==
  /\ have_security = TRUE
  /\ readable = {}
  /\ logging_xml = <<>>
  /\ policy \in UniqueCollections
  /\ InitCaller

\* add_property(properties, property)
Upsert ==
  /\ calls < MaxUpserts
  /\ \E property \in UpsertProperties :
       Returned(Return(TRUE, add_property(policy, property), nullptr, FALSE),
                [op |-> "add_property", property |-> property])

\* for (auto & item : new_properties) add_property(properties, item)
Merge ==
  /\ calls < MaxUpserts
  /\ \E new_properties \in UniqueCollections :
       Returned(Return(TRUE, add_all(policy, new_properties), nullptr, FALSE),
                [op |-> "merge", new_properties |-> new_properties])

NextUpsert == Upsert \/ Merge

SpecUpsert == InitUpsert /\ [][NextUpsert]_vars

(***************************************************************************)
(* Vocabulary of the properties                                            *)
(***************************************************************************)
BuildCall == call.op = "apply_security_options"
RootGiven == BuildCall /\ call.security_options.security_root_path # nullptr
Enforced == BuildCall /\ call.security_options.enforce_security
MissingMandatory ==
  \E f \in MandatoryFiles : join_path(SecureRoot, f) \notin readable
LoggingReadable == LoggingPath \in readable

\* the security_log root of the stored descriptor, nullptr if it has none
Descriptor ==
  IF LoggingReadable /\ logging_xml # <<>> /\ logging_xml[1].name = "security_log"
  THEN <<logging_xml[1]>> ELSE nullptr

\* the element of a field of the descriptor, nullptr if absent
Field(tag) ==
  IF Descriptor = nullptr THEN nullptr
  ELSE IF tag \in {"profile", "depth"}
  THEN IF FirstChildElement(Descriptor[1].children, "qos") = nullptr THEN nullptr
       ELSE FirstChildElement(
              FirstChildElement(Descriptor[1].children, "qos")[1].children, tag)
  ELSE FirstChildElement(Descriptor[1].children, tag)

Absent(tag) == Field(tag) = nullptr
NoText(tag) == Field(tag) # nullptr /\ Field(tag)[1].text = nullptr
HasText(tag) == Field(tag) # nullptr /\ Field(tag)[1].text # nullptr
TextOf(tag) == Field(tag)[1].text[1]

HasSubstr(str, sub) ==
  \E i \in 1..(Len(str) - Len(sub) + 1) : SubSeq(str, i, i + Len(sub) - 1) = sub

\* the build went as far as parsing the logging descriptor
ReachedLogging ==
  have_security /\ RootGiven /\ ~MissingMandatory /\ LoggingReadable

(***************************************************************************)
(* C1: with security support compiled in, a build on a security root in    *)
(* which a mandatory file is unreadable fails when enforce is set; when    *)
(* enforce is clear it succeeds and returns the caller's collection as it  *)
(* was (empty if it was empty), whether or not logging.xml is readable.    *)
(***************************************************************************)
C1_EnforcementGate ==
  (have_security /\ RootGiven /\ MissingMandatory) =>
     IF Enforced THEN ret = FALSE
     ELSE ret = TRUE /\ policy = before /\ (before = <<>> => policy = <<>>)

C1_Witness ==
  /\ have_security /\ RootGiven /\ ~Enforced
  /\ join_path(SecureRoot, governance_file_name) \notin readable
  /\ LoggingReadable
  /\ ret = TRUE /\ before = <<>> /\ policy = <<>>

(***************************************************************************)
(* C2: with all six mandatory files readable and no logging.xml, a build   *)
(* on an empty collection succeeds and the collection is exactly the nine  *)
(* core properties in their order, every URI being "file://" followed by   *)
(* the path of the file of that very role.                                 *)
(***************************************************************************)
C2_Expected ==
  << [name |-> "dds.sec.auth.plugin", value |-> "builtin.PKI-DH"],
     [name |-> "dds.sec.auth.builtin.PKI-DH.identity_ca",
      value |-> "file:///keystore/talker/identity_ca.cert.pem"],
     [name |-> "dds.sec.auth.builtin.PKI-DH.identity_certificate",
      value |-> "file:///keystore/talker/cert.pem"],
     [name |-> "dds.sec.auth.builtin.PKI-DH.private_key",
      value |-> "file:///keystore/talker/key.pem"],
     [name |-> "dds.sec.crypto.plugin", value |-> "builtin.AES-GCM-GMAC"],
     [name |-> "dds.sec.access.plugin", value |-> "builtin.Access-Permissions"],
     [name |-> "dds.sec.access.builtin.Access-Permissions.permissions_ca",
      value |-> "file:///keystore/talker/permissions_ca.cert.pem"],
     [name |-> "dds.sec.access.builtin.Access-Permissions.governance",
      value |-> "file:///keystore/talker/governance.p7s"],
     [name |-> "dds.sec.access.builtin.Access-Permissions.permissions",
      value |-> "file:///keystore/talker/permissions.p7s"] >>

C2_NineCoreProperties ==
  (have_security /\ RootGiven /\ ~MissingMandatory /\ ~LoggingReadable
     /\ before = <<>>)
    => (ret = TRUE /\ policy = C2_Expected)

C2_Witness ==
  /\ have_security /\ RootGiven /\ ~MissingMandatory /\ ~LoggingReadable
  /\ before = <<>> /\ ret = TRUE /\ Len(policy) = 9

(***************************************************************************)
(* C3: whenever a build returns failure, the caller's collection is what   *)
(* it was before the call.                                                 *)
(***************************************************************************)
C3_NoPartialOnFailure ==
  (BuildCall /\ ret = FALSE) => policy = before

(***************************************************************************)
(* C4: when the parser of the security-logging module fails, its target    *)
(* collection is exactly what it was before the call.                      *)
(***************************************************************************)
C4_AllOrNothing ==
  (call.op = "logging_parse" /\ ret = FALSE) => policy = before

\* a failure behind a valid file field, on a target that was not empty
C4_Witness ==
  /\ call.op = "logging_parse" /\ ret = FALSE
  /\ HasText("file") /\ HasText("profile") /\ TextOf("profile") = "INVALID_PROFILE"
  /\ before # <<>> /\ policy = before

(***************************************************************************)
(* C5: a descriptor without a security_log root makes either copy of the   *)
(* parser return failure, and makes a build that parses it fail.           *)
(***************************************************************************)
C5_MissingRootFails ==
  /\ (call.op = "logging_parse" /\ Descriptor = nullptr) => ret = FALSE
  /\ (call.op = "security_parse" /\ Descriptor = nullptr) => ret = FALSE
  /\ (ReachedLogging /\ Descriptor = nullptr) => ret = FALSE

\* the six names of the catalog, and the decimal form of each one's depth
SixNames ==
  {"SENSOR_DATA", "PARAMETERS", "DEFAULT", "SERVICES_DEFAULT",
   "PARAMETER_EVENTS", "SYSTEM_DEFAULT"}

DepthText(profile_name) ==
  CASE profile_name = "SENSOR_DATA" -> "5"
    [] profile_name = "PARAMETERS" -> "1000"
    [] profile_name = "DEFAULT" -> "10"
    [] profile_name = "SERVICES_DEFAULT" -> "10"
    [] profile_name = "PARAMETER_EVENTS" -> "1000"
    [] profile_name = "SYSTEM_DEFAULT" -> "0"

DepthEntries ==
  {i \in 1..Len(policy) : policy[i].name = distribute_depth_property_name}

LoggingParsed == call.op = "logging_parse" /\ Descriptor # nullptr

(***************************************************************************)
(* C6: after a successful parse of a descriptor whose qos block has a      *)
(* profile child naming a catalog profile and a depth child with text D,   *)
(* in either order, there is exactly one distribution-depth property and   *)
(* its value is D; with a profile child only, its value is the decimal     *)
(* form of that profile's depth.                                           *)
(***************************************************************************)
C6_OverrideLaw ==
  (LoggingParsed /\ ret = TRUE /\ HasText("profile")
     /\ TextOf("profile") \in SixNames)
    => /\ Cardinality(DepthEntries) = 1
       /\ \A i \in DepthEntries :
            /\ HasText("depth") => policy[i].value = TextOf("depth")
            /\ Absent("depth") => policy[i].value = DepthText(TextOf("profile"))

\* depth written before profile in the document, and depth still wins
C6_Witness ==
  /\ LoggingParsed /\ ret = TRUE
  /\ HasText("profile") /\ TextOf("profile") = "DEFAULT"
  /\ HasText("depth") /\ TextOf("depth") = "42"
  /\ FirstChildElement(Descriptor[1].children, "qos")[1].children[1].name = "depth"
  /\ \E i \in DepthEntries : policy[i].value = "42"

(***************************************************************************)
(* C7 as stated: a profile text outside the six catalog names makes the    *)
(* parse fail with a message containing "<name> is not a supported         *)
(* profile".                                                               *)
(***************************************************************************)
C7_UnknownProfileMessage ==
  (LoggingParsed /\ HasText("profile") /\ TextOf("profile") \notin SixNames)
    => /\ ret = FALSE
       /\ error_msg # nullptr
       /\ HasSubstr(error_msg[1],
                    TextOf("profile") \o " is not a supported profile")

(***************************************************************************)
(* C7 as amended: a profile text outside the six catalog names makes the   *)
(* parse fail; the message contains "<name> is not a supported profile"    *)
(* when none of file, verbosity and distribute is present without text     *)
(* (those are read first and fail with their own message), also when a     *)
(* valid depth child is present.  Each of the six names is accepted.       *)
(***************************************************************************)
C7_UnknownProfileFails ==
  /\ (LoggingParsed /\ HasText("profile") /\ TextOf("profile") \notin SixNames)
       => /\ ret = FALSE
          /\ error_msg # nullptr
          /\ (~NoText("file") /\ ~NoText("verbosity") /\ ~NoText("distribute"))
               => HasSubstr(error_msg[1],
                            TextOf("profile") \o " is not a supported profile")
  /\ (LoggingParsed /\ HasText("profile") /\ TextOf("profile") \in SixNames
        /\ \A t \in {"file", "verbosity", "distribute", "depth"} : ~NoText(t))
       => ret = TRUE

\* a name that differs from a catalog name by case only, next to a valid depth
C7_Witness ==
  /\ LoggingParsed /\ ret = FALSE
  /\ HasText("profile") /\ TextOf("profile") = "default"
  /\ HasText("depth")
  /\ error_msg = <<"failed to set security logging profile: default is not a supported profile">>

\* the message that names a field
Names(msg, tag) == HasSubstr(msg, "security logging " \o tag \o ":")

FieldTags == {"file", "verbosity", "distribute", "profile", "depth"}

(***************************************************************************)
(* C8 as stated: each of the five fields, when present without text, makes *)
(* the parse fail with an error naming that field.                         *)
(***************************************************************************)
C8_MissingTextNamesField ==
  \A t \in FieldTags :
    (LoggingParsed /\ NoText(t))
      => (ret = FALSE /\ error_msg # nullptr /\ Names(error_msg[1], t))

\* the fields the parser reads before a given one
ReadBefore(t) ==
  CASE t = "file" -> {}
    [] t = "verbosity" -> {"file"}
    [] t = "distribute" -> {"file", "verbosity"}
    [] t = "profile" -> {"file", "verbosity", "distribute"}
    [] t = "depth" -> {"file", "verbosity", "distribute", "profile"}

(***************************************************************************)
(* C8 as amended: each of the five fields, when present without text,      *)
(* makes the parse fail; the error names the first such field in the order *)
(* file, verbosity, distribute, qos/profile, qos/depth, and an unknown     *)
(* profile name is reported before a depth without text.  A descriptor     *)
(* whose present fields all have text, and whose profile, if any, is in    *)
(* the catalog, parses successfully whichever elements are absent.         *)
(***************************************************************************)
C8_MissingTextFails ==
  /\ \A t \in FieldTags :
       (LoggingParsed /\ NoText(t))
         => /\ ret = FALSE
            /\ error_msg # nullptr
            /\ ((\A u \in ReadBefore(t) : ~NoText(u))
                  /\ (t = "depth" /\ HasText("profile")
                        => TextOf("profile") \in SixNames))
                 => Names(error_msg[1], t)
  /\ (LoggingParsed /\ (\A t \in FieldTags : ~NoText(t))
        /\ (HasText("profile") => TextOf("profile") \in SixNames))
       => (ret = TRUE /\ error_msg = nullptr)

\* a depth without text behind three valid fields and a valid profile
C8_Witness ==
  /\ LoggingParsed /\ ret = FALSE
  /\ HasText("file") /\ HasText("verbosity") /\ HasText("distribute")
  /\ HasText("profile") /\ TextOf("profile") = "SENSOR_DATA"
  /\ NoText("depth")
  /\ error_msg = <<"failed to set security logging depth: improper format">>

\* the property a present field among file, verbosity, distribute yields
C9_FieldProperty(tag, name) ==
  IF HasText(tag) THEN <<[name |-> name, value |-> TextOf(tag)]>> ELSE <<>>

C9_Fixed ==
  <<[name |-> "dds.sec.log.plugin", value |-> "builtin.DDS_LogTopic"]>>
    \o C9_FieldProperty("file", "dds.sec.log.builtin.DDS_LogTopic.log_file")
    \o C9_FieldProperty("verbosity",
                        "dds.sec.log.builtin.DDS_LogTopic.event_log_level")
    \o C9_FieldProperty("distribute",
                        "dds.sec.log.builtin.DDS_LogTopic.distribute")

(***************************************************************************)
(* C9: a successful parse of a descriptor into an empty collection leaves  *)
(* the logging-plugin property "builtin.DDS_LogTopic" first, then one      *)
(* property per present field among file, verbosity, distribute in that    *)
(* order with the field's text as value, then one distribution-depth       *)
(* property iff the qos block has a profile or a depth child, and nothing  *)
(* else.                                                                   *)
(***************************************************************************)
C9_ResultShape ==
  (LoggingParsed /\ ret = TRUE /\ before = <<>>)
    => /\ SubSeq(policy, 1, Len(C9_Fixed)) = C9_Fixed
       /\ IF Absent("profile") /\ Absent("depth")
          THEN Len(policy) = Len(C9_Fixed)
          ELSE /\ Len(policy) = Len(C9_Fixed) + 1
               /\ policy[Len(policy)].name =
                    "com.rti.serv.secure.logging.distribute.writer_history_depth"

\* file, verbosity, distribute and qos/depth: five entries
C9_Witness ==
  /\ LoggingParsed /\ ret = TRUE /\ before = <<>>
  /\ HasText("file") /\ HasText("verbosity") /\ HasText("distribute")
  /\ HasText("depth") /\ Absent("profile")
  /\ Len(policy) = 5

(***************************************************************************)
(* C10: in a build without security support, every call (a build with or   *)
(* without a root path, either copy of the logging parser) fails with the  *)
(* support-unavailable error and goes nowhere near the file system.        *)
(***************************************************************************)
C10_UnsupportedFailsEarly ==
  (~have_security
     /\ call.op \in {"apply_security_options", "security_parse", "logging_parse"})
    => (ret = FALSE /\ ~fs_accessed /\ error_msg = <<unsupported_msg>>)

(***************************************************************************)
(* C11: the first call of a caller finds the error slot clear; when that   *)
(* call is the parser of the security-logging module, it returns success   *)
(* if and only if the error slot is still clear when it returns.           *)
(***************************************************************************)
C11_ErrorAgreesWithReturn ==
  (call.op = "logging_parse" /\ calls = 1)
    => (ret = TRUE <=> error_msg = nullptr)

UniqueNames(properties) ==
  \A i, j \in 1..Len(properties) :
    i # j => properties[i].name # properties[j].name

(***************************************************************************)
(* C12: whatever builds and logging parses a caller applies to a           *)
(* collection that started empty, no two of its entries have the same      *)
(* name.                                                                   *)
(***************************************************************************)
C12_NamesStayUnique == UniqueNames(policy)

\* where a name sits in a collection, 0 if nowhere
IndexOf(properties, name) ==
  IF \E i \in 1..Len(properties) : properties[i].name = name
  THEN CHOOSE i \in 1..Len(properties) : properties[i].name = name
  ELSE 0

\* the entries of source whose names target lacks, in the order of source
RECURSIVE NewEntries(_, _)
NewEntries(target, source) ==
  IF source = <<>> THEN <<>>
  ELSE IF IndexOf(target, Head(source).name) = 0
       THEN <<Head(source)>> \o NewEntries(target, Tail(source))
       ELSE NewEntries(target, Tail(source))

(***************************************************************************)
(* C13: add_property on a collection with pairwise different names: when   *)
(* the name is there, the length, the order and every other entry stay     *)
(* and that entry takes the new value; when it is not, the collection      *)
(* stays and the property is appended.  The merging loop leaves what       *)
(* add_property leaves when applied to the entries of the source in the    *)
(* source's order: every entry of the target in place, with the source's   *)
(* value where the source has its name, followed by the source's entries   *)
(* under new names in the source's order.                                  *)
(***************************************************************************)
C13_UpsertAndMerge ==
  /\ (call.op = "add_property" /\ UniqueNames(before))
       => IF IndexOf(before, call.property.name) # 0
          THEN /\ Len(policy) = Len(before)
               /\ \A i \in 1..Len(before) :
                    /\ policy[i].name = before[i].name
                    /\ policy[i].value =
                         IF before[i].name = call.property.name
                         THEN call.property.value ELSE before[i].value
          ELSE policy = Append(before, call.property)
  /\ (call.op = "merge" /\ UniqueNames(before))
       => /\ SubSeq(policy, Len(before) + 1, Len(policy))
               = NewEntries(before, call.new_properties)
          /\ Len(policy) >= Len(before)
          /\ \A i \in 1..Len(before) :
               /\ policy[i].name = before[i].name
               /\ policy[i].value =
                    IF IndexOf(call.new_properties, before[i].name) # 0
                    THEN call.new_properties[
                           IndexOf(call.new_properties, before[i].name)].value
                    ELSE before[i].value

\* an overwrite in the first place of a collection of two
C13_Witness ==
  /\ call.op = "add_property"
  /\ Len(before) = 2 /\ UniqueNames(before)
  /\ before[1].name = call.property.name
  /\ before[1].value # call.property.value
  /\ policy[1] = call.property /\ policy[2] = before[2]

\* what the parser of the security module returns for the call that the
\* parser of the security-logging module has just answered
SecurityCopy ==
  security_apply_logging_configuration_from_file(LoggingPath, before)

VerbosityNames ==
  {"dds.sec.log.builtin.DDS_LogTopic.event_log_level",
   "dds.sec.log.builtin.DDS_LogTopic.logging_level"}

\* the two results agree on length, order and values, and on every name
\* except where the one has its verbosity name and the other has its own
EquivalentUpToVerbosity ==
  /\ SecurityCopy.ret = ret
  /\ Len(SecurityCopy.properties) = Len(policy)
  /\ \A i \in 1..Len(policy) :
       /\ SecurityCopy.properties[i].value = policy[i].value
       /\ \/ SecurityCopy.properties[i].name = policy[i].name
          \/ /\ policy[i].name = "dds.sec.log.builtin.DDS_LogTopic.event_log_level"
             /\ SecurityCopy.properties[i].name =
                  "dds.sec.log.builtin.DDS_LogTopic.logging_level"

(***************************************************************************)
(* C14 as stated: in a build with security support, for every descriptor   *)
(* and the same initial collection the two copies of the parser return the *)
(* same and leave lists of the same length, order and values, with the     *)
(* same names but for the verbosity entry.                                 *)
(***************************************************************************)
C14_CopiesEquivalent ==
  (have_security /\ call.op = "logging_parse") => EquivalentUpToVerbosity

(***************************************************************************)
(* C14 as amended: the same, for the initial collections that hold no      *)
(* entry under either copy's verbosity name when the descriptor has a      *)
(* verbosity field; the entry a verbosity field yields is named            *)
(* event_log_level by the security-logging module and logging_level by     *)
(* the security module.                                                    *)
(***************************************************************************)
C14_CopiesEquivalentOnFresh ==
  (have_security /\ call.op = "logging_parse"
     /\ (HasText("verbosity")
           => \A i \in 1..Len(before) : before[i].name \notin VerbosityNames))
    => /\ EquivalentUpToVerbosity
       /\ (ret = TRUE /\ Descriptor # nullptr /\ HasText("verbosity"))
            => \E i \in 1..Len(policy) :
                 /\ policy[i].name =
                      "dds.sec.log.builtin.DDS_LogTopic.event_log_level"
                 /\ SecurityCopy.properties[i].name =
                      "dds.sec.log.builtin.DDS_LogTopic.logging_level"
                 /\ policy[i].value = TextOf("verbosity")

\* a verbosity field parsed into a collection that was not empty
C14_Witness ==
  /\ have_security /\ call.op = "logging_parse" /\ ret = TRUE
  /\ Descriptor # nullptr /\ HasText("verbosity") /\ HasText("depth")
  /\ before # <<>>
  /\ \A i \in 1..Len(before) : before[i].name \notin VerbosityNames
  /\ SecurityCopy.ret = TRUE
  /\ Len(SecurityCopy.properties) = Len(policy)
  /\ \E i \in 1..Len(policy) : SecurityCopy.properties[i].name # policy[i].name

====
